---- MODULE Spec2Model ----
(***************************************************************************)
(* BibCC: the completer (completer.py) and the template ingester           *)
(* (bib2py.py) as one state machine.  Text is a sequence of one-character  *)
(* strings; a Python dict is a sequence of <<key, value>> pairs in         *)
(* insertion order.                                                        *)
(***************************************************************************)
EXTENDS Integers, Sequences, FiniteSets, TLC

VARIABLES
    prog,               \* which script runs: "completer" or "bib2py"
    pc,                 \* position of the script
    run,                \* number of the bib2py run on the same templates file
    tfile,              \* templates.py on disk: NoFile or a sequence of blocks
    bak,                \* templates.py.bak on disk
    prev,               \* content of templates.py when the current run started
    entries,            \* bib_database.entries, as the parser returned them
    lines,              \* the input .bib file as text lines
    i,                  \* index of the next entry of the entry loop
    TEMPLATES,          \* completer: the imported TEMPLATES dict
    dry_run,            \* completer: main's dry_run argument
    patches,            \* completer: patches dict
    patches0,           \* completer: patches as pass 1 left it
    conflicts,          \* completer: conflicts dict
    missing_templates,  \* completer: missing_templates dict
    last,               \* what the last iteration of the entry loop computed
    conflict_rows,      \* completer: rows of the conflict log
    missing_rows,       \* completer: rows of the missing-template log
    conflict_log,       \* completer: the conflict log file
    missing_log,        \* completer: the missing-template log file
    j,                  \* completer: number of input lines written in pass 2
    out,                \* completer: the output file
    stdout,             \* what the script printed
    update,             \* bib2py: the update argument
    existing,           \* bib2py: the existing dict
    loaded,             \* bib2py: the dict as load_templates_dict returned it
    norm_index,         \* bib2py: norm_index dict
    counts,             \* bib2py: added, skipped_missing, skipped_existing, updated_existing
    text,               \* bib2py: text read back from templates.py
    sorted_items,       \* bib2py: sorted_items
    w                   \* bib2py: number of blocks of the current write on disk

vars ==
    << prog, pc, run, tfile, bak, prev, entries, lines, i, TEMPLATES, dry_run,
       patches, patches0, conflicts, missing_templates, last, conflict_rows,
       missing_rows, conflict_log, missing_log, j, out, stdout, update,
       existing, loaded, norm_index, counts, text, sorted_items, w >>

-----------------------------------------------------------------------------
(* Bounds of the model.                                                    *)

MaxTemplates == 2
MaxChunks == 2
MaxRuns == 2

-----------------------------------------------------------------------------
(* Characters and text.                                                    *)

None == << "<None>" >>
NoFile == << [nofile |-> TRUE] >>
NoKey == << >>

Ord(c) ==
    CASE c = "\n" -> 10 [] c = " " -> 32 [] c = "\"" -> 34 [] c = "%" -> 37
      [] c = "'" -> 39 [] c = "," -> 44 [] c = "-" -> 45 [] c = "." -> 46
      [] c = "0" -> 48 [] c = "1" -> 49 [] c = "2" -> 50 [] c = "9" -> 57
      [] c = "=" -> 61 [] c = "@" -> 64 [] c = "A" -> 65 [] c = "B" -> 66
      [] c = "M" -> 77 [] c = "N" -> 78 [] c = "\\" -> 92 [] c = "a" -> 97
      [] c = "b" -> 98 [] c = "d" -> 100 [] c = "m" -> 109 [] c = "n" -> 110
      [] c = "u" -> 117 [] c = "x" -> 120 [] c = "y" -> 121 [] c = "z" -> 122
      [] c = "{" -> 123 [] c = "}" -> 125 [] c = "^2" -> 178

LowerChar(c) ==
    CASE c = "A" -> "a" [] c = "B" -> "b" [] c = "M" -> "m" [] c = "N" -> "n"
      [] OTHER -> c

IsSpace(c) == c \in {" ", "\n"}

IsWord(c) ==
    c \in {"0", "1", "2", "9", "A", "B", "M", "N", "a", "b", "d", "m", "n", "u",
           "x", "y", "z", "^2"}

AsciiDigit(c) == c \in {"0", "1", "2", "9"}

\* str.isdigit: the decimal digits and the superscript digits
IsDigit(c) == AsciiDigit(c) \/ c = "^2"

DigitVal(c) == Ord(c) - Ord("0")

Lower(s) == [n \in DOMAIN s |-> LowerChar(s[n])]

RemoveChar(s, c) == SelectSeq(s, LAMBDA ch : ch # c)

RECURSIVE LStrip(_)
LStrip(s) == IF s # <<>> /\ IsSpace(Head(s)) THEN LStrip(Tail(s)) ELSE s

RECURSIVE RStrip(_)
RStrip(s) ==
    IF s # <<>> /\ IsSpace(s[Len(s)]) THEN RStrip(SubSeq(s, 1, Len(s) - 1)) ELSE s

Strip(s) == RStrip(LStrip(s))

Truthy(v) == v # None /\ v # <<>>

normalize_text(t) ==
    IF ~Truthy(t) THEN <<>> ELSE Lower(Strip(RemoveChar(RemoveChar(t, "{"), "}")))

\* str < str, by code point
RECURSIVE StrLess(_, _)
StrLess(s, t) ==
    IF t = <<>> THEN FALSE
    ELSE IF s = <<>> THEN TRUE
    ELSE IF Ord(Head(s)) # Ord(Head(t)) THEN Ord(Head(s)) < Ord(Head(t))
    ELSE StrLess(Tail(s), Tail(t))

-----------------------------------------------------------------------------
(* Python dicts.                                                           *)

Keys(d) == {d[n][1] : n \in DOMAIN d}

Has(d, k) == k \in Keys(d)

Get(d, k) == d[CHOOSE n \in DOMAIN d : d[n][1] = k][2]

GetOr(d, k, default) == IF Has(d, k) THEN Get(d, k) ELSE default

Put(d, k, v) ==
    IF Has(d, k)
    THEN [n \in DOMAIN d |-> IF d[n][1] = k THEN <<k, v>> ELSE d[n]]
    ELSE Append(d, <<k, v>>)

SetDefault(d, k, v) == IF Has(d, k) THEN d ELSE Append(d, <<k, v>>)

\* Del that leaves the key in place
DelKeepsKey(d, k) == d

Del(d, k) == SelectSeq(d, LAMBDA p : p[1] # k)

RECURSIVE FromPairs(_)
FromPairs(ps) ==
    IF ps = <<>> THEN <<>>
    ELSE LET p == ps[Len(ps)]
         IN  Put(FromPairs(SubSeq(ps, 1, Len(ps) - 1)), p[1], p[2])

-----------------------------------------------------------------------------
(* The header pattern of pass 2: re.search(r"@\w+\s*\{\s*([^,]+),", line), *)
(* then group(1).strip().                                                  *)

\* \w+ and \s*: the last index of the run of word characters, and of blanks,
\* that starts at n
WordRunEnd(s, n) ==
    CHOOSE e \in (n - 1)..Len(s) :
        /\ \A m \in n..e : IsWord(s[m])
        /\ e = Len(s) \/ ~IsWord(s[e + 1])

SpaceRunEnd(s, n) ==
    CHOOSE e \in (n - 1)..Len(s) :
        /\ \A m \in n..e : IsSpace(s[m])
        /\ e = Len(s) \/ ~IsSpace(s[e + 1])

\* the index of the "{" of a match that starts at the "@" at p, or 0
BraceAt(s, p) ==
    IF p > Len(s) \/ s[p] # "@" THEN 0
    ELSE LET we == WordRunEnd(s, p + 1)
             se == SpaceRunEnd(s, we + 1)
         IN  IF we > p /\ se < Len(s) /\ s[se + 1] = "{" THEN se + 1 ELSE 0

\* the index of the "," that ends group 1 of a match that starts at p, or 0
CommaAt(s, p) ==
    LET b == BraceAt(s, p)
        cs == {c \in DOMAIN s : c > b /\ s[c] = ","}
    IN  IF b = 0 \/ cs = {} THEN 0
        ELSE LET c == CHOOSE c \in cs : \A d \in cs : c <= d
             IN  IF c > b + 1 THEN c ELSE 0

HeaderId(line) ==
    LET ps == {p \in DOMAIN line : CommaAt(line, p) # 0}
    IN  IF ps = {} THEN None
        ELSE LET p == CHOOSE p \in ps : \A q \in ps : p <= q
             IN  Strip(SubSeq(line, BraceAt(line, p) + 1, CommaAt(line, p) - 1))

-----------------------------------------------------------------------------
(* Python string literals: repr(str), and what the interpreter reads back  *)
(* from a quoted token.  No text of the model holds a backslash followed   *)
(* by a letter or digit other than n, and no key holds a double quote.     *)

Bad == << "<SyntaxError>" >>

Quote(s) == <<"\"">> \o s \o <<"\"">>

RECURSIVE ReprBody(_, _)
ReprBody(s, q) ==
    IF s = <<>> THEN <<>>
    ELSE LET c == Head(s)
             e == IF c = "\\" THEN <<"\\", "\\">>
                  ELSE IF c = q THEN <<"\\", q>>
                  ELSE IF c = "\n" THEN <<"\\", "n">>
                  ELSE <<c>>
         IN  e \o ReprBody(Tail(s), q)

PyRepr(s) ==
    LET q == IF (\E n \in DOMAIN s : s[n] = "'") /\ ~(\E n \in DOMAIN s : s[n] = "\"")
             THEN "\"" ELSE "'"
    IN  <<q>> \o ReprBody(s, q) \o <<q>>

Unescape(e) ==
    CASE e = "\\" -> <<"\\">>
      [] e = "'" -> <<"'">>
      [] e = "\"" -> <<"\"">>
      [] e = "n" -> <<"\n">>
      [] e = "\n" -> <<>>
      [] OTHER -> <<"\\", e>>

RECURSIVE PyBody(_, _)
PyBody(s, q) ==
    IF s = <<>> THEN Bad
    ELSE IF Head(s) = q THEN (IF Len(s) = 1 THEN <<>> ELSE Bad)
    ELSE IF Head(s) = "\n" THEN Bad
    ELSE IF Head(s) = "\\"
         THEN IF Len(s) < 2 THEN Bad
              ELSE LET rest == PyBody(SubSeq(s, 3, Len(s)), q)
                   IN  IF rest = Bad THEN Bad ELSE Unescape(s[2]) \o rest
    ELSE LET rest == PyBody(Tail(s), q)
         IN  IF rest = Bad THEN Bad ELSE <<Head(s)>> \o rest

PyParse(tok) ==
    IF tok = <<>> \/ Head(tok) \notin {"'", "\""} THEN Bad
    ELSE PyBody(Tail(tok), Head(tok))

-----------------------------------------------------------------------------
(* templates.py: a sequence of blocks, one per template, each holding the  *)
(* quoted venue and year tokens and the "name": repr(value) lines.         *)

ParseFields(fs) == FromPairs([n \in DOMAIN fs |-> <<fs[n][1], PyParse(fs[n][2])>>])

ParseBlock(b) == << <<PyParse(b.venue), PyParse(b.year)>>, ParseFields(b.fields) >>

Loadable(f) ==
    /\ f # NoFile
    /\ \A n \in DOMAIN f :
        /\ PyParse(f[n].venue) # Bad
        /\ PyParse(f[n].year) # Bad
        /\ \A m \in DOMAIN f[n].fields : PyParse(f[n].fields[m][2]) # Bad

load_templates_dict(f) == FromPairs([n \in DOMAIN f |-> ParseBlock(f[n])])

CleanVal(v) == Strip(RemoveChar([n \in DOMAIN v |-> IF v[n] = "\n" THEN " " ELSE v[n]], "\r"))

RenderBlock(item) ==
    [venue |-> Quote(item[1][1]),
     year |-> Quote(item[1][2]),
     fields |-> [n \in DOMAIN item[2] |->
                    <<item[2][n][1], PyRepr(CleanVal(item[2][n][2]))>>]]

-----------------------------------------------------------------------------
(* The export order.                                                       *)

Digits(s) == SelectSeq(s, IsDigit)

RECURSIVE IntOf(_)
IntOf(ds) ==
    IF ds = <<>> THEN 0 ELSE 10 * IntOf(SubSeq(ds, 1, Len(ds) - 1)) + DigitVal(ds[Len(ds)])

_year_value(year_str) ==
    LET digits == Digits(year_str)
    IN  IF digits = <<>> THEN -1
        ELSE IF \E n \in DOMAIN digits : ~AsciiDigit(digits[n]) THEN -1
        ELSE IntOf(digits)

\* SortKeyLess with the year not negated
SortKeyLessAscending(a, b) ==
    LET ya == _year_value(a[1][2])
        yb == _year_value(b[1][2])
    IN  ya < yb \/ (ya = yb /\ StrLess(Lower(a[1][1]), Lower(b[1][1])))

\* key(a) < key(b) for key = (-_year_value(year), venue.lower())
SortKeyLess(a, b) ==
    LET ya == -_year_value(a[1][2])
        yb == -_year_value(b[1][2])
    IN  ya < yb \/ (ya = yb /\ StrLess(Lower(a[1][1]), Lower(b[1][1])))

\* sorted() is stable: an item goes after the items whose key is not greater
InsertItem(s, x) ==
    LET n == Cardinality({m \in DOMAIN s : ~SortKeyLess(x, s[m])})
    IN  SubSeq(s, 1, n) \o <<x>> \o SubSeq(s, n + 1, Len(s))

RECURSIVE SortItems(_)
SortItems(items) ==
    IF items = <<>> THEN <<>>
    ELSE InsertItem(SortItems(SubSeq(items, 1, Len(items) - 1)), items[Len(items)])

-----------------------------------------------------------------------------
(* Inputs: the .bib file is a sequence of chunks, each a run of text lines *)
(* with the entry the parser returns for it (none for a comment).          *)

EXCLUDED_KEYS ==
    {"ID", "ENTRYTYPE", "year", "booktitle", "journal", "title", "author", "pages",
     "volume", "url", "doi", "pdf", "numpages", "articleno", "number", "note"}

\* @a{x,            booktitle A, year 2020, url a
ChunkX ==
    [lines |-> << <<"@", "a", "{", "x", ",">>, <<"}">> >>,
     entries |-> << << <<"booktitle", <<"A">> >>, <<"year", <<"2", "0", "2", "0">> >>,
                       <<"url", <<"a">> >>,
                       <<"ENTRYTYPE", <<"a">> >>, <<"ID", <<"x">> >> >> >>]

\* @a {y ,          journal {a}, year 2020, acronym n
ChunkY ==
    [lines |-> << <<"@", "a", " ", "{", "y", " ", ",">>, <<"}">> >>,
     entries |-> << << <<"journal", <<"{", "a", "}">> >>, <<"year", <<"2", "0", "2", "0">> >>,
                       <<"acronym", <<"n">> >>,
                       <<"ENTRYTYPE", <<"a">> >>, <<"ID", <<"y">> >> >> >>]

\* a header broken over two lines: booktitle B, year n.d., month with a line break
ChunkZ ==
    [lines |-> << <<"@", "a", "{">>, <<" ", "z", ",">>, <<"}">> >>,
     entries |-> << << <<"booktitle", <<"B">> >>, <<"year", <<"n", ".", "d", ".">> >>,
                       <<"month", <<"1", "\n", "2">> >>,
                       <<"ENTRYTYPE", <<"a">> >>, <<"ID", <<"z">> >> >> >>]

\* an entry with no year, its header followed on the same line by a field that
\* quotes another header
ChunkW ==
    [lines |-> << <<"@", "b", "{", "d", ",", " ", "u", "=", "{", "@", "a", "{", "x", ",", "}">> >>,
     entries |-> << << <<"booktitle", <<"A">> >>,
                       <<"ENTRYTYPE", <<"b">> >>, <<"ID", <<"d">> >> >> >>]

\* a comment that quotes a header, a line with no comma after the brace, and a
\* line with only a blank between the brace and the comma
ChunkC ==
    [lines |-> << <<"%", " ", "@", "a", "{", "x", ",">>, <<"@", "a", "{", "y">>,
                  <<"@", "a", "{", " ", ",">> >>,
     entries |-> << >>]

\* the chunks of the .bib files given to the completer and to bib2py
CompleterChunks == {ChunkX, ChunkY, ChunkZ, ChunkW, ChunkC}

IngestChunks == {ChunkX, ChunkY, ChunkZ, ChunkW}

\* sequences of at most MaxChunks different chunks
ChunkSeqs(pool) ==
    UNION {{s \in [1..n -> pool] : \A a, b \in 1..n : a # b => s[a] # s[b]}
           : n \in 0..MaxChunks}

RECURSIVE Flatten(_)
Flatten(ss) == IF ss = <<>> THEN <<>> ELSE Head(ss) \o Flatten(Tail(ss))

LinesOf(cs) == Flatten([n \in DOMAIN cs |-> cs[n].lines])

EntriesOf(cs) == Flatten([n \in DOMAIN cs |-> cs[n].entries])

\* a block of templates.py as written in the file
Block(venue, year, fields) == [venue |-> Quote(venue), year |-> Quote(year), fields |-> fields]

Y2020 == <<"2", "0", "2", "0">>

NoDate == <<"n", ".", "d", ".">>

MetaN == << <<"acronym", PyRepr(<<"N">>)>> >>

MetaM == << <<"acronym", PyRepr(<<"M">>)>>, <<"url", PyRepr(<<"u">>)>> >>

\* the blocks of the templates.py the completer imports
CompleterBlocks ==
    { Block(<<"A">>, Y2020, MetaN), Block(<<"A">>, Y2020, MetaM),
      Block(<<"a">>, Y2020, MetaM), Block(<<"a">>, Y2020, << >>),
      Block(<<"B">>, NoDate, MetaN) }

\* the blocks of the templates.py bib2py loads; the venue of the fourth is
\* written "\\'" in the file and read as \'
IngestBlocks ==
    { Block(<<"A">>, Y2020, MetaN), Block(<<"a">>, Y2020, MetaM),
      Block(<<"1">>, <<"9">>, MetaN), Block(<<"\\", "\\", "'">>, <<"9">>, MetaN),
      Block(<<"B">>, NoDate, MetaN), Block(<<"b">>, <<"^2">>, MetaN) }

\* templates.py files of at most MaxTemplates blocks with different keys
StoreFiles(pool) ==
    UNION {{f \in [1..n -> pool] :
                \A a, b \in 1..n : a # b => <<f[a].venue, f[a].year>> # <<f[b].venue, f[b].year>>}
           : n \in 0..MaxTemplates}

-----------------------------------------------------------------------------
(* completer.py                                                            *)

Or2(a, b) == IF Truthy(a) THEN a ELSE b

OrEmpty(a) == IF Truthy(a) THEN a ELSE <<>>

\* the loop of lines 61-67: the first template whose normalized key matches, or 0
MatchIndex(T, clean_venue, clean_year) ==
    LET ms == {n \in DOMAIN T : /\ normalize_text(T[n][1][1]) = clean_venue
                                /\ normalize_text(T[n][1][2]) = clean_year}
    IN  IF ms = {} THEN 0 ELSE CHOOSE n \in ms : \A m \in ms : n <= m

FieldsToAdd(entry, tmpl) == SelectSeq(tmpl, LAMBDA p : ~Has(entry, p[1]))

\* Differs that compares the raw values
DiffersRaw(entry, p) == Has(entry, p[1]) /\ Get(entry, p[1]) # p[2]

Differs(entry, p) ==
    Has(entry, p[1]) /\ normalize_text(Get(entry, p[1])) # normalize_text(p[2])

ConflictsToAdd(entry, tmpl) ==
    LET cs == SelectSeq(tmpl, LAMBDA p : Differs(entry, p))
    IN  [n \in DOMAIN cs |-> <<cs[n][1], Get(entry, cs[n][1]), cs[n][2]>>]

NoLast == [kind |-> "none"]

\* from templates import TEMPLATES
Import ==
    /\ prog = "completer" /\ pc = "start"
    /\ IF Loadable(tfile)
       THEN /\ TEMPLATES' = load_templates_dict(tfile)
            /\ pc' = "loop"
            /\ stdout' = Append(stdout, [msg |-> "Reading", ids |-> {}])
       ELSE /\ pc' = "aborted"
            /\ UNCHANGED <<TEMPLATES, stdout>>
    /\ UNCHANGED << prog, run, tfile, bak, prev, entries, lines, i, dry_run, patches,
                    patches0, conflicts, missing_templates, last, conflict_rows,
                    missing_rows, conflict_log, missing_log, j, out, update, existing,
                    loaded, norm_index, counts, text, sorted_items, w >>

\* one iteration of the loop of pass 1
ProcessEntry ==
    /\ prog = "completer" /\ pc = "loop" /\ i <= Len(entries)
    /\ LET entry == entries[i]
           entry_id == Get(entry, "ID")
           year == GetOr(entry, "year", None)
           venue_raw == Or2(GetOr(entry, "booktitle", None), GetOr(entry, "journal", None))
           clean_venue == normalize_text(venue_raw)
           clean_year == normalize_text(year)
           m == MatchIndex(TEMPLATES, clean_venue, clean_year)
       IN  IF ~Truthy(year) \/ ~Truthy(venue_raw)
           THEN /\ missing_templates' =
                       SetDefault(missing_templates,
                                  <<normalize_text(OrEmpty(venue_raw)), normalize_text(OrEmpty(year))>>,
                                  <<OrEmpty(venue_raw), OrEmpty(year)>>)
                /\ last' = [kind |-> "nokey", n |-> i]
                /\ UNCHANGED <<patches, conflicts>>
           ELSE IF m = 0 \/ TEMPLATES[m][2] = <<>>
           THEN /\ missing_templates' =
                       SetDefault(missing_templates, <<clean_venue, clean_year>>, <<venue_raw, year>>)
                /\ last' = [kind |-> "nomatch", n |-> i, m |-> m]
                /\ UNCHANGED <<patches, conflicts>>
           ELSE LET fields_to_add == FieldsToAdd(entry, TEMPLATES[m][2])
                    conflicts_to_add == ConflictsToAdd(entry, TEMPLATES[m][2])
                IN  /\ patches' = IF fields_to_add # <<>>
                                  THEN Put(patches, entry_id, fields_to_add) ELSE patches
                    /\ conflicts' = IF conflicts_to_add # <<>>
                                    THEN Put(conflicts, entry_id, conflicts_to_add) ELSE conflicts
                    /\ last' = [kind |-> "merge", n |-> i, m |-> m,
                                fields_to_add |-> fields_to_add,
                                conflicts_to_add |-> conflicts_to_add]
                    /\ UNCHANGED missing_templates
    /\ i' = i + 1
    /\ UNCHANGED << prog, pc, run, tfile, bak, prev, entries, lines, TEMPLATES, dry_run,
                    patches0, conflict_rows, missing_rows, conflict_log, missing_log, j,
                    out, stdout, update, existing, loaded, norm_index, counts, text,
                    sorted_items, w >>

ConflictRows(cs) ==
    Flatten([n \in DOMAIN cs |->
                [r \in DOMAIN cs[n][2] |->
                    <<cs[n][1], cs[n][2][r][1], cs[n][2][r][2], cs[n][2][r][3]>>]])

MissingRows(ms) == [n \in DOMAIN ms |-> ms[n][2]]

\* lines 89-108: the count of patches is printed and the log rows are collected
CollectRows ==
    /\ prog = "completer" /\ pc = "loop" /\ i > Len(entries)
    /\ stdout' = Append(stdout, [msg |-> "identified", n |-> Len(patches), ids |-> {}])
    /\ conflict_rows' = ConflictRows(conflicts)
    /\ missing_rows' = MissingRows(missing_templates)
    /\ pc' = IF dry_run THEN "dry" ELSE "pass2"
    /\ UNCHANGED << prog, run, tfile, bak, prev, entries, lines, i, TEMPLATES, dry_run,
                    patches, patches0, conflicts, missing_templates, last, conflict_log,
                    missing_log, j, out, update, existing, loaded, norm_index, counts,
                    text, sorted_items, w >>

_write_log(header, rows) == <<header>> \o (IF rows # <<>> THEN rows ELSE << <<"(none)">> >>)

\* lines 111-150: the dry-run branch prints its summary, writes both logs and returns
DryRunReport ==
    /\ prog = "completer" /\ pc = "dry"
    /\ conflict_log' = _write_log(<<"conflicts">>, conflict_rows)
    /\ missing_log' = _write_log(<<"missing templates">>, missing_rows)
    /\ stdout' = stdout \o << [msg |-> "Dry-run additions", ids |-> Keys(patches)],
                            [msg |-> "Conflicts", ids |-> Keys(conflicts)],
                            [msg |-> "Missing", ids |-> {}],
                            [msg |-> "Logs saved", ids |-> {}] >>
    /\ pc' = "done"
    /\ UNCHANGED << prog, run, tfile, bak, prev, entries, lines, i, TEMPLATES, dry_run,
                    patches, patches0, conflicts, missing_templates, last, conflict_rows,
                    missing_rows, j, out, update, existing, loaded, norm_index, counts,
                    text, sorted_items, w >>

\* lines 154-157: the input is read as lines and the output file is opened
OpenOutput ==
    /\ prog = "completer" /\ pc = "pass2"
    /\ out' = <<>>
    /\ j' = 0
    /\ patches0' = patches
    /\ pc' = "write"
    /\ UNCHANGED << prog, run, tfile, bak, prev, entries, lines, i, TEMPLATES, dry_run,
                    patches, conflicts, missing_templates, last, conflict_rows,
                    missing_rows, conflict_log, missing_log, stdout, update, existing,
                    loaded, norm_index, counts, text, sorted_items, w >>

FieldLines(id, new_data) ==
    [n \in DOMAIN new_data |->
        [kind |-> "field", id |-> id, key |-> new_data[n][1], val |-> new_data[n][2]]]

\* one iteration of the loop of lines 158-172
WriteLine ==
    /\ prog = "completer" /\ pc = "write" /\ j < Len(lines)
    /\ LET line == lines[j + 1]
           current_id == HeaderId(line)
           written == <<[kind |-> "line", n |-> j + 1, text |-> line]>>
       IN  IF current_id # None /\ Has(patches, current_id)
           THEN /\ out' = out \o written \o FieldLines(current_id, Get(patches, current_id))
                /\ patches' = Del(patches, current_id)
           ELSE /\ out' = out \o written
                /\ UNCHANGED patches
    /\ j' = j + 1
    /\ UNCHANGED << prog, pc, run, tfile, bak, prev, entries, lines, i, TEMPLATES, dry_run,
                    patches0, conflicts, missing_templates, last, conflict_rows,
                    missing_rows, conflict_log, missing_log, stdout, update, existing,
                    loaded, norm_index, counts, text, sorted_items, w >>

\* line 174: the output file is closed and main prints that it is done
Finish ==
    /\ prog = "completer" /\ pc = "write" /\ j = Len(lines)
    /\ stdout' = Append(stdout, [msg |-> "Done", ids |-> {}])
    /\ pc' = "done"
    /\ UNCHANGED << prog, run, tfile, bak, prev, entries, lines, i, TEMPLATES, dry_run,
                    patches, patches0, conflicts, missing_templates, last, conflict_rows,
                    missing_rows, conflict_log, missing_log, j, out, update, existing,
                    loaded, norm_index, counts, text, sorted_items, w >>

-----------------------------------------------------------------------------
(* bib2py.py                                                               *)

NormKey(kv) == <<normalize_text(kv[1]), normalize_text(kv[2])>>

\* lines 70-72: a dict comprehension over existing.keys()
BuildNormIndex(ex) == FromPairs([n \in DOMAIN ex |-> <<NormKey(ex[n][1]), ex[n][1]>>])

\* line 94
Meta(entry) == SelectSeq(entry, LAMBDA p : p[1] \notin EXCLUDED_KEYS)

\* MergeField that keeps the template's value of a field it already has
MergeFieldKeepsOld(merged, p) == IF ~Has(merged, p[1]) THEN Put(merged, p[1], p[2]) ELSE merged

\* lines 104-111: what the loop over meta does to merged for one field
MergeField(merged, p) ==
    IF ~Has(merged, p[1]) THEN Put(merged, p[1], p[2])
    ELSE IF normalize_text(Get(merged, p[1])) # normalize_text(p[2]) THEN Put(merged, p[1], p[2])
    ELSE merged

RECURSIVE MergeMeta(_, _)
MergeMeta(tpl, meta) ==
    IF meta = <<>> THEN tpl
    ELSE MergeField(MergeMeta(tpl, SubSeq(meta, 1, Len(meta) - 1)), meta[Len(meta)])

missing_fields(tpl, meta) ==
    LET ps == SelectSeq(meta, LAMBDA p : ~Has(tpl, p[1]))
    IN  [n \in DOMAIN ps |-> ps[n][1]]

differing_fields(tpl, meta) ==
    LET ps == SelectSeq(meta, LAMBDA p : /\ Has(tpl, p[1])
                                         /\ normalize_text(Get(tpl, p[1])) # normalize_text(p[2]))
    IN  [n \in DOMAIN ps |-> ps[n][1]]

NoCounts == [added |-> 0, skipped_missing |-> 0, skipped_existing |-> 0, updated_existing |-> 0]

\* lines 65-79: the .bib file is parsed, templates.py is loaded and indexed
LoadTemplates ==
    /\ prog = "bib2py" /\ pc = "start"
    /\ IF Loadable(tfile)
       THEN /\ existing' = load_templates_dict(tfile)
            /\ loaded' = load_templates_dict(tfile)
            /\ norm_index' = BuildNormIndex(load_templates_dict(tfile))
            /\ pc' = "loop"
       ELSE /\ pc' = "aborted"
            /\ UNCHANGED <<existing, loaded, norm_index>>
    /\ UNCHANGED << prog, run, tfile, bak, prev, entries, lines, i, TEMPLATES, dry_run,
                    patches, patches0, conflicts, missing_templates, last, conflict_rows,
                    missing_rows, conflict_log, missing_log, j, out, stdout, update,
                    counts, text, sorted_items, w >>

\* one iteration of the loop of lines 81-123
IngestEntry ==
    /\ prog = "bib2py" /\ pc = "loop" /\ i <= Len(entries)
    /\ LET entry == entries[i]
           venue == Or2(GetOr(entry, "booktitle", None), GetOr(entry, "journal", None))
           year == GetOr(entry, "year", None)
           norm_key == <<normalize_text(venue), normalize_text(year)>>
           meta == Meta(entry)
           match_key == GetOr(norm_index, norm_key, NoKey)
       IN  IF ~Truthy(venue) \/ ~Truthy(year)
           THEN /\ counts' = [counts EXCEPT !.skipped_missing = @ + 1]
                /\ stdout' = Append(stdout, [msg |-> "Skipped", ids |-> {GetOr(entry, "ID", None)}])
                /\ last' = [kind |-> "nokey", n |-> i]
                /\ UNCHANGED <<existing, norm_index>>
           ELSE IF match_key # NoKey
           THEN LET tpl == Get(existing, match_key)
                    merged == MergeMeta(tpl, meta)
                    changed == missing_fields(tpl, meta) # <<>> \/ differing_fields(tpl, meta) # <<>>
                IN  /\ existing' = IF changed THEN Put(existing, match_key, merged) ELSE existing
                    /\ counts' = IF changed
                                 THEN [counts EXCEPT !.updated_existing = @ + 1]
                                 ELSE [counts EXCEPT !.skipped_existing = @ + 1]
                    /\ last' = [kind |-> "merge", n |-> i, match_key |-> match_key, tpl |-> tpl,
                                missing_fields |-> missing_fields(tpl, meta),
                                differing_fields |-> differing_fields(tpl, meta)]
                    /\ UNCHANGED <<norm_index, stdout>>
           ELSE /\ existing' = Put(existing, <<venue, year>>, meta)
                /\ norm_index' = Put(norm_index, norm_key, <<venue, year>>)
                /\ counts' = [counts EXCEPT !.added = @ + 1]
                /\ last' = [kind |-> "added", n |-> i]
                /\ UNCHANGED stdout
    /\ i' = i + 1
    /\ UNCHANGED << prog, pc, run, tfile, bak, prev, entries, lines, TEMPLATES, dry_run,
                    patches, patches0, conflicts, missing_templates, conflict_rows,
                    missing_rows, conflict_log, missing_log, j, out, update,
                    loaded, text, sorted_items, w >>

\* lines 125-134: without --update the snippets and the summary are printed
PrintSummary ==
    /\ prog = "bib2py" /\ pc = "loop" /\ i > Len(entries) /\ ~update
    /\ stdout' = Append(stdout, [msg |-> "Summary", counts |-> counts, ids |-> {}])
    /\ pc' = "done"
    /\ UNCHANGED << prog, run, tfile, bak, prev, entries, lines, i, TEMPLATES, dry_run,
                    patches, patches0, conflicts, missing_templates, last, conflict_rows,
                    missing_rows, conflict_log, missing_log, j, out, update, existing,
                    loaded, norm_index, counts, text, sorted_items, w >>

\* line 138: text = templates_path.read_text()
ReadText ==
    /\ prog = "bib2py" /\ pc = "loop" /\ i > Len(entries) /\ update
    /\ text' = tfile
    /\ pc' = "bak_open"
    /\ UNCHANGED << prog, run, tfile, bak, prev, entries, lines, i, TEMPLATES, dry_run,
                    patches, patches0, conflicts, missing_templates, last, conflict_rows,
                    missing_rows, conflict_log, missing_log, j, out, stdout, update,
                    existing, loaded, norm_index, counts, sorted_items, w >>

\* line 140, backup.write_text: the backup is opened for writing, which empties it
BackupOpen ==
    /\ prog = "bib2py" /\ pc = "bak_open"
    /\ bak' = <<>>
    /\ w' = 0
    /\ pc' = "bak_write"
    /\ UNCHANGED << prog, run, tfile, prev, entries, lines, i, TEMPLATES, dry_run,
                    patches, patches0, conflicts, missing_templates, last, conflict_rows,
                    missing_rows, conflict_log, missing_log, j, out, stdout, update,
                    existing, loaded, norm_index, counts, text, sorted_items >>

\* BackupWrite whose pieces never reach the file
BackupWriteLost ==
    /\ prog = "bib2py" /\ pc = "bak_write" /\ w < Len(text)
    /\ w' = w + 1
    /\ UNCHANGED << prog, pc, run, tfile, bak, prev, entries, lines, i, TEMPLATES, dry_run,
                    patches, patches0, conflicts, missing_templates, last, conflict_rows,
                    missing_rows, conflict_log, missing_log, j, out, stdout, update,
                    existing, loaded, norm_index, counts, text, sorted_items >>

\* line 140, backup.write_text: the text reaches the backup piece by piece
BackupWrite ==
    /\ prog = "bib2py" /\ pc = "bak_write" /\ w < Len(text)
    /\ bak' = Append(bak, text[w + 1])
    /\ w' = w + 1
    /\ UNCHANGED << prog, pc, run, tfile, prev, entries, lines, i, TEMPLATES, dry_run,
                    patches, patches0, conflicts, missing_templates, last, conflict_rows,
                    missing_rows, conflict_log, missing_log, j, out, stdout, update,
                    existing, loaded, norm_index, counts, text, sorted_items >>

\* lines 140-155: the backup is closed; the items are sorted
SortExisting ==
    /\ prog = "bib2py" /\ pc = "bak_write" /\ w = Len(text)
    /\ sorted_items' = SortItems(existing)
    /\ pc' = "dst_open"
    /\ UNCHANGED << prog, run, tfile, bak, prev, entries, lines, i, TEMPLATES, dry_run,
                    patches, patches0, conflicts, missing_templates, last, conflict_rows,
                    missing_rows, conflict_log, missing_log, j, out, stdout, update,
                    existing, loaded, norm_index, counts, text, w >>

\* line 156, templates_path.write_text: templates.py is opened for writing
DestOpen ==
    /\ prog = "bib2py" /\ pc = "dst_open"
    /\ tfile' = <<>>
    /\ w' = 0
    /\ pc' = "dst_write"
    /\ UNCHANGED << prog, run, bak, prev, entries, lines, i, TEMPLATES, dry_run,
                    patches, patches0, conflicts, missing_templates, last, conflict_rows,
                    missing_rows, conflict_log, missing_log, j, out, stdout, update,
                    existing, loaded, norm_index, counts, text, sorted_items >>

\* line 156, templates_path.write_text: the rendered blocks reach templates.py
DestWrite ==
    /\ prog = "bib2py" /\ pc = "dst_write" /\ w < Len(sorted_items)
    /\ tfile' = Append(tfile, RenderBlock(sorted_items[w + 1]))
    /\ w' = w + 1
    /\ UNCHANGED << prog, pc, run, bak, prev, entries, lines, i, TEMPLATES, dry_run,
                    patches, patches0, conflicts, missing_templates, last, conflict_rows,
                    missing_rows, conflict_log, missing_log, j, out, stdout, update,
                    existing, loaded, norm_index, counts, text, sorted_items >>

\* lines 156-157: templates.py is closed and the run reports the backup
DestClose ==
    /\ prog = "bib2py" /\ pc = "dst_write" /\ w = Len(sorted_items)
    /\ stdout' = Append(stdout, [msg |-> "templates updated", ids |-> {}])
    /\ pc' = "done"
    /\ UNCHANGED << prog, run, tfile, bak, prev, entries, lines, i, TEMPLATES, dry_run,
                    patches, patches0, conflicts, missing_templates, last, conflict_rows,
                    missing_rows, conflict_log, missing_log, j, out, update, existing,
                    loaded, norm_index, counts, text, sorted_items, w >>

\* a write of lines 140 or 156 raises OSError, or the process is killed
WriteFails ==
    /\ prog = "bib2py" /\ pc \in {"bak_open", "bak_write", "dst_open", "dst_write"}
    /\ pc' = "aborted"
    /\ UNCHANGED << prog, run, tfile, bak, prev, entries, lines, i, TEMPLATES, dry_run,
                    patches, patches0, conflicts, missing_templates, last, conflict_rows,
                    missing_rows, conflict_log, missing_log, j, out, stdout, update,
                    existing, loaded, norm_index, counts, text, sorted_items, w >>

\* bib2py --update is run again on the same .bib file and the templates.py it wrote
RunAgain ==
    /\ prog = "bib2py" /\ pc = "done" /\ update /\ run < MaxRuns
    /\ run' = run + 1
    /\ prev' = tfile
    /\ pc' = "start"
    /\ i' = 1
    /\ existing' = <<>> /\ loaded' = <<>> /\ norm_index' = <<>>
    /\ counts' = NoCounts
    /\ last' = NoLast
    /\ text' = <<>> /\ sorted_items' = <<>> /\ w' = 0
    /\ stdout' = <<>>
    /\ UNCHANGED << prog, tfile, bak, entries, lines, TEMPLATES, dry_run, patches,
                    patches0, conflicts, missing_templates, conflict_rows, missing_rows,
                    conflict_log, missing_log, j, out, update >>

-----------------------------------------------------------------------------
(* The state machine.                                                      *)

InitCompleter ==
    /\ prog = "completer"
    /\ tfile \in StoreFiles(CompleterBlocks) \cup {NoFile}
    /\ \E cs \in ChunkSeqs(CompleterChunks) : entries = EntriesOf(cs) /\ lines = LinesOf(cs)
    /\ dry_run \in BOOLEAN
    /\ update = FALSE

InitBib2py ==
    /\ prog = "bib2py"
    /\ tfile \in StoreFiles(IngestBlocks) \cup {NoFile}
    /\ \E cs \in ChunkSeqs(IngestChunks) : entries = EntriesOf(cs) /\ lines = LinesOf(cs)
    /\ dry_run = FALSE
    /\ update \in BOOLEAN

Init ==
    /\ InitCompleter \/ InitBib2py
    /\ pc = "start"
    /\ run = 1
    /\ bak = NoFile
    /\ prev = tfile
    /\ i = 1
    /\ TEMPLATES = <<>>
    /\ patches = <<>> /\ patches0 = <<>> /\ conflicts = <<>> /\ missing_templates = <<>>
    /\ last = NoLast
    /\ conflict_rows = <<>> /\ missing_rows = <<>>
    /\ conflict_log = NoFile /\ missing_log = NoFile
    /\ j = 0
    /\ out = NoFile
    /\ stdout = <<>>
    /\ existing = <<>> /\ loaded = <<>> /\ norm_index = <<>>
    /\ counts = NoCounts
    /\ text = <<>> /\ sorted_items = <<>>
    /\ w = 0

Next ==
    \/ Import
    \/ ProcessEntry
    \/ CollectRows
    \/ DryRunReport
    \/ OpenOutput
    \/ WriteLine
    \/ Finish
    \/ LoadTemplates
    \/ IngestEntry
    \/ PrintSummary
    \/ ReadText
    \/ BackupOpen
    \/ BackupWrite
    \/ SortExisting
    \/ DestOpen
    \/ DestWrite
    \/ DestClose
    \/ WriteFails
    \/ RunAgain

Spec == Init /\ [][Next]_vars

-----------------------------------------------------------------------------
(* Properties.                                                             *)

Range(f) == {f[n] : n \in DOMAIN f}

InPass2 == prog = "completer" /\ ~dry_run /\ pc \in {"write", "done"}

IsLine(r) == r.kind = "line"

IsField(r) == r.kind = "field"

\* the first line whose header pattern gives id, or 0
FirstHeader(id) ==
    LET hs == {k \in DOMAIN lines : HeaderId(lines[k]) = id}
    IN  IF hs = {} THEN 0 ELSE CHOOSE k \in hs : \A h \in hs : k <= h

\* the position of the input line that the output position q follows or is
LineBefore(q) ==
    LET ls == {h \in 1..q : IsLine(out[h])}
    IN  IF ls = {} THEN 0 ELSE CHOOSE h \in ls : \A g \in ls : g <= h

PatchLen(id) == Len(Get(patches0, id))

RECURSIVE SumPatchLen(_)
SumPatchLen(S) ==
    IF S = {} THEN 0
    ELSE LET x == CHOOSE x \in S : TRUE IN PatchLen(x) + SumPatchLen(S \ {x})

\* C1: pass 2 writes every input line verbatim and in order; an inserted line
\* is a field line of a patch of pass 1, written directly after the first line
\* whose header gives the patch's identifier, all fields of the patch together
\* and nowhere else; the inserted lines number the fields of the patches whose
\* identifier a written line gave.
C1_PatchPassPreserves ==
    InPass2 =>
        /\ SelectSeq(out, IsLine) = [k \in 1..j |-> [kind |-> "line", n |-> k, text |-> lines[k]]]
        /\ \A q \in DOMAIN out :
            IsField(out[q]) =>
                LET h == LineBefore(q)
                    id == out[q].id
                IN  /\ h > 0
                    /\ HeaderId(out[h].text) = id
                    /\ Has(patches0, id)
                    /\ out[h].n = FirstHeader(id)
                    /\ q <= h + PatchLen(id)
                    /\ h + PatchLen(id) <= Len(out)
                    /\ SubSeq(out, h + 1, h + PatchLen(id)) = FieldLines(id, Get(patches0, id))
        /\ Len(SelectSeq(out, IsField)) =
               SumPatchLen({id \in Keys(patches0) : FirstHeader(id) \in 1..j})

\* C1 witness: a finished pass 2 that inserted fields after the first header of
\* an identifier and wrote a later line with the same identifier untouched.
C1_Witness ==
    /\ InPass2 /\ pc = "done"
    /\ \E q \in DOMAIN out :
        /\ IsField(out[q])
        /\ \E k \in DOMAIN lines : k > FirstHeader(out[q].id) /\ HeaderId(lines[k]) = out[q].id

\* C2: in a run with update, templates.py differs from what it held when the
\* run started only while the backup holds all of that content: in every
\* state, a failed or killed run included, one of the two files holds it.
C2_BackupBeforeOverwrite ==
    (prog = "bib2py" /\ update) => (tfile = prev \/ bak = prev)

\* C2 witness: the write of templates.py failed part-way, after the backup.
C2_Witness ==
    /\ prog = "bib2py" /\ update /\ pc = "aborted"
    /\ prev # NoFile /\ Len(prev) > 1
    /\ tfile # prev /\ tfile # <<>>
    /\ bak = prev

LastEntry == entries[last.n]

SharedDiffering(entry, tpl) ==
    {k \in Keys(tpl) \cap Keys(entry) : normalize_text(Get(tpl, k)) # normalize_text(Get(entry, k))}

\* completion mode: the conflicts of the last entry are recorded, the store is
\* as imported, and no conflicting field is in the entry's patch or written
CompletionLeavesConflicts ==
    (prog = "completer" /\ last.kind = "merge") =>
        LET entry == LastEntry
            id == Get(entry, "ID")
            tpl == TEMPLATES[last.m][2]
        IN  /\ TEMPLATES = load_templates_dict(tfile) /\ tfile = prev
            /\ \A k \in SharedDiffering(entry, tpl) :
                /\ Has(conflicts, id)
                /\ <<k, Get(entry, k), Get(tpl, k)>> \in Range(Get(conflicts, id))
                /\ k \notin Keys(last.fields_to_add)
                /\ Has(patches, id) => k \notin Keys(Get(patches, id))
                /\ out # NoFile =>
                       \A q \in DOMAIN out : (IsField(out[q]) /\ out[q].id = id) => out[q].key # k

\* ingestion: the fields in Fs that the last entry and its template both have
\* with different normalized values now hold the entry's raw value in the store
IngestionOverwrites(Fs) ==
    (prog = "bib2py" /\ last.kind = "merge") =>
        \A k \in SharedDiffering(LastEntry, last.tpl) \cap Fs :
            Get(Get(existing, last.match_key), k) = Get(LastEntry, k)

AllFields == Keys(MetaN) \cup Keys(MetaM) \cup UNION {Keys(e) : e \in Range(entries)}

\* C3 as amended: when an entry matches a template and a field outside the
\* excluded set is on both with different normalized values, ingestion
\* overwrites the template's field in the store with the entry's raw value;
\* completion only records the conflict, leaves the store alone and never
\* puts the field in the patch.
C3_ConflictPolicy ==
    /\ IngestionOverwrites(AllFields \ EXCLUDED_KEYS)
    /\ CompletionLeavesConflicts

\* C3 as stated: the same for every field present on both, excluded or not.
C3_AsStated ==
    /\ IngestionOverwrites(AllFields)
    /\ CompletionLeavesConflicts

\* C3 witness: ingestion has just overwritten a differing field.
C3_Witness ==
    /\ prog = "bib2py" /\ last.kind = "merge"
    /\ SharedDiffering(LastEntry, last.tpl) \ EXCLUDED_KEYS # {}
    /\ last.differing_fields # <<>>

\* the templates whose normalized key is that of the entry
Matching(T, entry) ==
    LET venue == Or2(GetOr(entry, "booktitle", None), GetOr(entry, "journal", None))
        year == GetOr(entry, "year", None)
    IN  {n \in DOMAIN T : /\ Truthy(venue) /\ Truthy(year)
                          /\ NormKey(T[n][1]) = <<normalize_text(venue), normalize_text(year)>>}

LastPatch == IF last.kind = "merge" THEN last.fields_to_add ELSE <<>>

LastConflicts == IF last.kind = "merge" THEN last.conflicts_to_add ELSE <<>>

\* C4: for an entry whose normalized (venue, year) matches a template, the
\* patch is the template's fields that the entry lacks, each once, and the
\* conflict list is empty exactly when all shared fields are normalized-equal.
C4_MergeCompletion ==
    (prog = "completer" /\ last.kind \in {"nokey", "nomatch", "merge"}) =>
        LET entry == LastEntry
            id == Get(entry, "ID")
        IN  Matching(TEMPLATES, entry) # {} =>
                \E n \in Matching(TEMPLATES, entry) :
                    LET tpl == TEMPLATES[n][2]
                    IN  /\ Range(LastPatch) = {p \in Range(tpl) : p[1] \notin Keys(entry)}
                        /\ Len(LastPatch) = Cardinality(Range(LastPatch))
                        /\ (LastConflicts = <<>>) <=> (SharedDiffering(entry, tpl) = {})
                        /\ pc = "loop" =>
                               IF LastPatch = <<>> THEN ~Has(patches, id)
                               ELSE Has(patches, id) /\ Get(patches, id) = LastPatch

\* C4 witness: a merge that gave both a patch and a conflict.
C4_Witness ==
    /\ prog = "completer" /\ last.kind = "merge"
    /\ last.fields_to_add # <<>> /\ last.conflicts_to_add # <<>>

\* C5: when pass 2 is over, every patch that no header line matched has been
\* named to the caller.
C5_UnresolvedSurfaced ==
    (InPass2 /\ pc = "done") =>
        \A id \in Keys(patches) : \E n \in DOMAIN stdout : id \in stdout[n].ids

\* C6: no excluded field is in a patch or a conflict of completion, and
\* ingestion neither adds an excluded field to a template nor changes one.
C6_ExcludedNeverCandidates ==
    /\ (prog = "completer" /\ last.kind = "merge") =>
           /\ Keys(last.fields_to_add) \cap EXCLUDED_KEYS = {}
           /\ \A c \in Range(last.conflicts_to_add) : c[1] \notin EXCLUDED_KEYS
    /\ (prog = "bib2py" /\ last.kind = "merge") =>
           \A k \in EXCLUDED_KEYS :
               LET now == Get(existing, last.match_key)
               IN  /\ Has(now, k) <=> Has(last.tpl, k)
                   /\ Has(now, k) => Get(now, k) = Get(last.tpl, k)
    /\ (prog = "bib2py" /\ last.kind = "added") =>
           LET entry == LastEntry
               key == << Or2(GetOr(entry, "booktitle", None), GetOr(entry, "journal", None)),
                         GetOr(entry, "year", None) >>
           IN  Keys(Get(existing, key)) \cap EXCLUDED_KEYS = {}

\* the first key of store T with the normalized key of the entry
FirstRegistered(T, entry) ==
    LET ms == Matching(T, entry)
    IN  T[CHOOSE n \in ms : \A m \in ms : n <= m][1]

\* C7: an entry whose normalized key is that of several store keys is matched
\* against the first-registered of them, in completion and in ingestion.
C7_FirstRegisteredWins ==
    /\ (prog = "completer" /\ last.kind \in {"nomatch", "merge"} /\ last.m # 0) =>
           TEMPLATES[last.m][1] = FirstRegistered(TEMPLATES, LastEntry)
    /\ (prog = "bib2py" /\ last.kind = "merge") =>
           last.match_key = FirstRegistered(existing, LastEntry)

\* C8: a finished completion run, dry or not, has written both logs: a row
\* for each recorded conflict and a row for each missing key.
C8_LogsAlwaysWritten ==
    (prog = "completer" /\ pc = "done") =>
        /\ conflict_log # NoFile /\ missing_log # NoFile
        /\ Tail(conflict_log) = (IF conflicts = <<>> THEN << <<"(none)">> >> ELSE ConflictRows(conflicts))
        /\ Tail(missing_log) = (IF missing_templates = <<>> THEN << <<"(none)">> >>
                                ELSE MissingRows(missing_templates))

Exported == prog = "bib2py" /\ update /\ pc \in {"dst_open", "dst_write", "done"}

StrLeq(s, t) == s = t \/ StrLess(s, t)

NoDigits(year) == \A n \in DOMAIN year : ~IsDigit(year[n])

DecimalYear(year) == Digits(year) # <<>> /\ \A n \in DOMAIN year : IsDigit(year[n]) => AsciiDigit(year[n])

\* the number that the decimal digits of a year spell
YearNumber(year) == IntOf(SelectSeq(year, AsciiDigit))

\* C9: the export holds the items of the store ordered by descending numeric
\* year, then by ascending lower-cased venue; a year with no digits counts as
\* -1 and comes after every year that spells a number.
C9_ExportOrder ==
    Exported =>
        /\ Range(sorted_items) = Range(existing) /\ Len(sorted_items) = Len(existing)
        /\ \A a, b \in DOMAIN sorted_items :
            LET ya == sorted_items[a][1][2]
                yb == sorted_items[b][1][2]
                na == IF DecimalYear(ya) THEN YearNumber(ya) ELSE -1
                nb == IF DecimalYear(yb) THEN YearNumber(yb) ELSE -1
            IN  /\ a < b => \/ na > nb
                            \/ na = nb /\ StrLeq(Lower(sorted_items[a][1][1]), Lower(sorted_items[b][1][1]))
                /\ NoDigits(ya) => _year_value(ya) = -1
                /\ (NoDigits(ya) /\ DecimalYear(yb)) => b < a

\* C9 witness: an export of three templates that the sort reordered, with two
\* venues of one numeric year and a year without digits.
C9_Witness ==
    /\ Exported /\ pc = "done"
    /\ Len(sorted_items) >= 3
    /\ sorted_items # existing
    /\ \E a, b, c \in DOMAIN sorted_items :
        /\ a < b
        /\ DecimalYear(sorted_items[a][1][2]) /\ sorted_items[a][1][2] = sorted_items[b][1][2]
        /\ NoDigits(sorted_items[c][1][2])

\* C10: a run that loaded a templates.py written by the run before and whose
\* entries added and changed nothing exports the (key, template) sequence it
\* loaded, and writes a file that reads back as that sequence.
C10_RegenerationIdempotent ==
    (Exported /\ pc = "done" /\ run > 1 /\ counts.added = 0 /\ counts.updated_existing = 0) =>
        /\ sorted_items = loaded
        /\ Loadable(tfile) /\ load_templates_dict(tfile) = loaded

====
